---- MODULE Spec2Model ----
(***************************************************************************)
(* flying_emu: bridge between an EMU-2 energy monitor (serial, synchronous *)
(* request/response) and an MQTT broker.  The model follows                *)
(* src/flying_emu/__init__.py: main() wraps run(); run() performs the      *)
(* startup handshake, the MQTT setup and then the polling loop.  The paho  *)
(* network thread started by loop_start() is a second process that handles *)
(* connect acknowledgements and calls client.on_connect.                   *)
(***************************************************************************)
EXTENDS Integers, Naturals, Sequences, FiniteSets, TLC

\* ------------------------------------------------------------------------
\* Program constants and bounds
\* ------------------------------------------------------------------------

CLIENT_UNRESPONSIVE_MAX == 3

\* decimal.getcontext().prec: precision of the default Decimal context
DecimalPrec == 28

\* ------------------------------------------------------------------------
\* Decimal arithmetic: Decimal(raw) * multiplier / divisor   (lines 167, 184)
\* A Decimal is [sign, digits, exp]: (-1)^sign * digits * 10^exp, digits a
\* sequence of decimal digits, most significant first, without leading zeros.
\* ------------------------------------------------------------------------

Abs(n) == IF n < 0 THEN -n ELSE n

RECURSIVE NatDigits(_)
NatDigits(n) == IF n < 10 THEN <<n>> ELSE Append(NatDigits(n \div 10), n % 10)

\* the sequence f[1..n] as an explicit tuple
Tuple(f, n) == SubSeq(f, 1, n)

Zeros(k) == Tuple([i \in 1..k |-> 0], k)

\* drop leading zeros, keeping one digit
StripLeading(ds) ==
    LET nz == {i \in 1..Len(ds) : ds[i] # 0}
    IN  IF ds = <<>> THEN <<>>
        ELSE IF nz = {} THEN <<0>>
        ELSE SubSeq(ds, CHOOSE i \in nz : \A j \in nz : i <= j, Len(ds))

IsZeroDigits(ds) == \A i \in 1..Len(ds) : ds[i] = 0

\* Decimal(n) for a Python int n
Decimal(n) == [sign |-> IF n < 0 THEN 1 ELSE 0, digits |-> NatDigits(Abs(n)), exp |-> 0]

\* schoolbook long division of a digit string by a small positive integer:
\* carries [q |-> quotient digits, r |-> remainder]
RECURSIVE LongDiv(_, _, _, _)
LongDiv(ds, b, q, r) ==
    IF ds = <<>> THEN [q |-> StripLeading(IF q = <<>> THEN <<0>> ELSE q), r |-> r]
    ELSE LET cur == r * 10 + Head(ds)
         IN  LongDiv(Tail(ds), b, Append(q, cur \div b), cur % b)

\* digits + 1: the trailing run of 9s becomes 0s
Increment(ds) ==
    LET n9 == {i \in 1..Len(ds) : ds[i] # 9}
    IN  IF n9 = {} THEN <<1>> \o Zeros(Len(ds))
        ELSE LET j == CHOOSE i \in n9 : \A k \in n9 : k <= i
             IN  Tuple([i \in 1..Len(ds) |->
                          IF i < j THEN ds[i] ELSE IF i = j THEN ds[i] + 1 ELSE 0],
                       Len(ds))

\* Decimal._fix with ROUND_HALF_EVEN: round the coefficient to prec digits
RoundHalfEven(ds, expo, prec) ==
    IF Len(ds) <= prec THEN [digits |-> ds, exp |-> expo]
    ELSE LET kept  == SubSeq(ds, 1, prec)
             drop  == SubSeq(ds, prec + 1, Len(ds))
             rest  == Tail(drop)
             up    == \/ drop[1] > 5
                      \/ drop[1] = 5 /\ ~IsZeroDigits(rest)
                      \/ drop[1] = 5 /\ IsZeroDigits(rest) /\ kept[prec] % 2 = 1
             r0    == IF up THEN Increment(kept) ELSE kept
             e0    == expo + Len(drop)
         IN  IF Len(r0) > prec
             THEN [digits |-> SubSeq(r0, 1, prec), exp |-> e0 + 1]
             ELSE [digits |-> r0, exp |-> e0]

\* remove trailing zeros of an exact quotient while exp < ideal exponent
StripToIdeal(ds, expo, ideal) ==
    LET ok == {t \in 0..(Len(ds) - 1) :
                  /\ expo + t <= ideal
                  /\ \A i \in (Len(ds) - t + 1)..Len(ds) : ds[i] = 0}
        t  == CHOOSE u \in ok : \A v \in ok : v <= u
    IN  IF expo >= ideal THEN [digits |-> ds, exp |-> expo]
        ELSE [digits |-> SubSeq(ds, 1, Len(ds) - t), exp |-> expo + t]

\* digit string times a small natural, least significant digit first
RECURSIVE MulSmallCarry(_, _, _)
MulSmallCarry(ds, m, carry) ==
    IF ds = <<>> THEN (IF carry = 0 THEN <<>> ELSE NatDigits(carry))
    ELSE LET n   == Len(ds)
             cur == ds[n] * m + carry
         IN  Append(MulSmallCarry(SubSeq(ds, 1, n - 1), m, cur \div 10), cur % 10)

MulSmall(ds, m) == StripLeading(MulSmallCarry(ds, m, 0))

\* Decimal.__mul__ with an int operand: exact product, then _fix
DecimalMul(d, m) ==
    LET s == (d.sign + (IF m < 0 THEN 1 ELSE 0)) % 2
        p == MulSmall(d.digits, Abs(m))
        f == RoundHalfEven(p, d.exp, DecimalPrec)
    IN  [sign |-> s, digits |-> f.digits, exp |-> f.exp]

\* Decimal.__truediv__ with a non-zero int operand b
DecimalDiv(d, b) ==
    LET s     == (d.sign + (IF b < 0 THEN 1 ELSE 0)) % 2
        bd    == NatDigits(Abs(b))
        shift == Len(bd) - Len(d.digits) + DecimalPrec + 1
        qr    == LongDiv(d.digits \o Zeros(shift), Abs(b), <<>>, 0)
        sticky == IF qr.r # 0 /\ qr.q[Len(qr.q)] % 5 = 0
                  THEN Increment(qr.q) ELSE qr.q
        e     == d.exp - shift
        c     == IF qr.r # 0 THEN [digits |-> sticky, exp |-> e]
                 ELSE StripToIdeal(qr.q, e, d.exp)
        f     == RoundHalfEven(c.digits, c.exp, DecimalPrec)
    IN  IF IsZeroDigits(d.digits)
        THEN [sign |-> s, digits |-> <<0>>, exp |-> d.exp]
        ELSE [sign |-> s, digits |-> f.digits, exp |-> f.exp]

\* variant of convert that divides with integer division (//)
convertFloorDiv(raw, multiplier, divisor) ==
    IF divisor = 0 THEN "DivisionByZero"
    ELSE Decimal((raw * multiplier) \div divisor)

\* Decimal(raw) * multiplier / divisor; "DivisionByZero" stands for the
\* decimal.DivisionByZero / InvalidOperation exception raised for divisor 0
convert(raw, multiplier, divisor) ==
    IF divisor = 0 THEN "DivisionByZero"
    ELSE DecimalDiv(DecimalMul(Decimal(raw), multiplier), divisor)

\* ------------------------------------------------------------------------
\* float(Decimal) and its JSON rendering                    (lines 189, 196)
\* float() gives the IEEE-754 double nearest to the decimal value; json.dumps
\* writes float.__repr__, the shortest decimal that reads back as that double.
\* A double is [sign, m, q]: (-1)^sign * m * 2^q with 2^52 <= m < 2^53 (m is
\* a digit string: it does not fit a machine integer of the checker).
\* ------------------------------------------------------------------------

\* 2^52 and 2^53 as digit strings
TwoPow52 == <<4,5,0,3,5,9,9,6,2,7,3,7,0,4,9,6>>
TwoPow53 == <<9,0,0,7,1,9,9,2,5,4,7,4,0,9,9,2>>

\* comparison of digit strings without leading zeros: -1, 0, 1
CmpDigits(a, b) ==
    IF Len(a) < Len(b) THEN -1
    ELSE IF Len(a) > Len(b) THEN 1
    ELSE LET diff == {i \in 1..Len(a) : a[i] # b[i]}
         IN  IF diff = {} THEN 0
             ELSE LET j == CHOOSE i \in diff : \A k \in diff : i <= k
                  IN  IF a[j] < b[j] THEN -1 ELSE 1

\* 2 * ds: the carry into a digit depends on its right neighbour only
Double(ds) ==
    LET n    == Len(ds)
        body == Tuple([i \in 1..n |->
                   ((2 * ds[i]) % 10) + (IF i < n /\ ds[i + 1] >= 5 THEN 1 ELSE 0)], n)
    IN  IF ds[1] >= 5 THEN <<1>> \o body ELSE body

\* ds \div 2: the borrow into a digit depends on its left neighbour only
Halve(ds) ==
    StripLeading(Tuple([i \in 1..Len(ds) |->
        (ds[i] + (IF i > 1 /\ ds[i - 1] % 2 = 1 THEN 10 ELSE 0)) \div 2], Len(ds)))

Times5(ds) == IF IsZeroDigits(ds) THEN <<0>> ELSE Halve(Append(ds, 0))

\* ds * 2^n and ds * 5^n for small n
RECURSIVE DoubleN(_, _)
DoubleN(ds, n) == IF n <= 0 THEN ds ELSE Double(DoubleN(ds, n - 1))

RECURSIVE Times5N(_, _)
Times5N(ds, n) == IF n <= 0 THEN ds ELSE Times5(Times5N(ds, n - 1))

\* ds * 5^k, eight factors at a time (each step is computed before the next)
RECURSIVE MulPow5(_, _)
MulPow5(ds, k) ==
    LET step == IF k >= 8 THEN 8 ELSE k
        nx   == Times5N(ds, step)
    IN  IF k <= 0 THEN ds
        ELSE IF Len(nx) = 0 THEN nx ELSE MulPow5(nx, k - step)

\* ds * 2^k, likewise
RECURSIVE MulPow2(_, _)
MulPow2(ds, k) ==
    LET step == IF k >= 8 THEN 8 ELSE k
        nx   == DoubleN(ds, step)
    IN  IF k <= 0 THEN ds
        ELSE IF Len(nx) = 0 THEN nx ELSE MulPow2(nx, k - step)

\* integer part of ds / 10^k
IntPart(ds, k) == IF Len(ds) <= k THEN <<0>> ELSE SubSeq(ds, 1, Len(ds) - k)

\* the last k digits of ds, zero-filled on the left
FracPart(ds, k) ==
    IF Len(ds) >= k THEN SubSeq(ds, Len(ds) - k + 1, Len(ds))
    ELSE Zeros(k - Len(ds)) \o ds

\* least i with ds * 2^i / 10^k >= 2^52, counted up from i in steps of 8
\* while that stays below 2^52, then in steps of 1
RECURSIVE ScaleUp(_, _, _)
ScaleUp(ds, k, i) ==
    LET far  == DoubleN(ds, 8)
        step == IF CmpDigits(IntPart(far, k), TwoPow52) < 0 THEN 8 ELSE 1
        nx   == IF step = 1 THEN Double(ds) ELSE far
    IN  IF CmpDigits(IntPart(ds, k), TwoPow52) >= 0 THEN [c |-> ds, i |-> i]
        ELSE ScaleUp(nx, k, i + step)

\* halve an integer >= 2^53 until it is below 2^53, remembering the bit
\* shifted out last (half) and whether any earlier one was set (sticky)
RECURSIVE ScaleDown(_, _, _, _)
ScaleDown(ds, j, half, sticky) ==
    IF CmpDigits(ds, TwoPow53) < 0
    THEN [c |-> ds, j |-> j, half |-> half, sticky |-> sticky]
    ELSE ScaleDown(Halve(ds), j + 1, ds[Len(ds)] % 2 = 1, sticky \/ half)

\* round-half-even decision from the discarded part
RoundUp(mant, gtHalf, eqHalf) ==
    gtHalf \/ (eqHalf /\ mant[Len(mant)] % 2 = 1)

\* the double nearest to (-1)^sign * digits * 10^expo, ties to even
NearestDouble(sign, digits, expo) ==
    IF IsZeroDigits(digits) THEN [sign |-> sign, m |-> <<0>>, q |-> 0]
    ELSE LET c0   == IF expo > 0 THEN digits \o Zeros(expo) ELSE digits
             k    == IF expo < 0 THEN -expo ELSE 0
             big  == CmpDigits(IntPart(c0, k), TwoPow53) >= 0
             up   == ScaleUp(c0, k, 0)
             dn   == ScaleDown(IntPart(c0, k), 0, FALSE, FALSE)
             m0   == IF big THEN dn.c ELSE IntPart(up.c, k)
             q0   == IF big THEN dn.j ELSE -up.i
             fr   == IF big THEN FracPart(c0, k) ELSE FracPart(up.c, k)
             frNZ == ~IsZeroDigits(fr)
             gt   == IF big THEN dn.half /\ (dn.sticky \/ frNZ)
                     ELSE k > 0 /\ (fr[1] > 5 \/ (fr[1] = 5 /\ ~IsZeroDigits(Tail(fr))))
             eq   == IF big THEN dn.half /\ ~dn.sticky /\ ~frNZ
                     ELSE k > 0 /\ fr[1] = 5 /\ IsZeroDigits(Tail(fr))
             m1   == IF RoundUp(m0, gt, eq) THEN Increment(m0) ELSE m0
         IN  IF m1 = TwoPow53
             THEN [sign |-> sign, m |-> TwoPow52, q |-> q0 + 1]
             ELSE [sign |-> sign, m |-> m1, q |-> q0]

\* remove trailing zeros of a coefficient, raising the exponent
Normalize(ds, expo) ==
    LET nz == {i \in 1..Len(ds) : ds[i] # 0}
        n  == IF nz = {} THEN 1 ELSE CHOOSE i \in nz : \A j \in nz : j <= i
    IN  [digits |-> SubSeq(ds, 1, n), exp |-> expo + (Len(ds) - n)]

\* float.__repr__ uses at most 17 significant digits
ReprMaxDigits == 17

\* the coefficient cut to n digits (rounded toward zero)
Truncate(ds, expo, n) ==
    IF Len(ds) <= n THEN [digits |-> ds, exp |-> expo]
    ELSE [digits |-> SubSeq(ds, 1, n), exp |-> expo + (Len(ds) - n)]

\* the next coefficient of the same length above t
NextUp(t) ==
    LET r == Increment(t.digits)
    IN  IF Len(r) > Len(t.digits)
        THEN [digits |-> SubSeq(r, 1, Len(t.digits)), exp |-> t.exp + 1]
        ELSE [digits |-> r, exp |-> t.exp]

\* digits - 1 for digits > 0: the trailing run of 0s becomes 9s
Decrement(ds) ==
    LET nz == {i \in 1..Len(ds) : ds[i] # 0}
        j  == CHOOSE i \in nz : \A k \in nz : k <= i
    IN  StripLeading(Tuple([i \in 1..Len(ds) |->
                              IF i < j THEN ds[i] ELSE IF i = j THEN ds[i] - 1 ELSE 9],
                           Len(ds)))

\* The decimals that read back as the non-zero double x = m * 2^q are those
\* between the midpoints to its two neighbours, (m - 1/2) * 2^q and
\* (m + 1/2) * 2^q; below a power of two (m = 2^52) the neighbour is half as
\* far, the midpoint (m - 1/4) * 2^q.  The midpoints themselves read back as x
\* when m is even (ties to even).  lo, value and hi are four times these
\* numbers in units of 10^exp: 2^q = 5^(-q) * 10^q for q < 0.
ReprInterval(x) ==
    LET four == Double(Double(x.m))
        lo   == IF x.m = TwoPow52 THEN Decrement(four) ELSE Decrement(Decrement(four))
        hi   == Increment(Increment(four))
    IN  [lo     |-> IF x.q < 0 THEN MulPow5(lo, -x.q) ELSE MulPow2(lo, x.q),
         hi     |-> IF x.q < 0 THEN MulPow5(hi, -x.q) ELSE MulPow2(hi, x.q),
         exp    |-> IF x.q < 0 THEN x.q ELSE 0,
         closed |-> x.m[Len(x.m)] % 2 = 0]

\* the decimal c (c.exp >= iv.exp) reads back as the double of interval iv
ReadsBack(iv, c) ==
    LET c4 == Double(Double(c.digits \o Zeros(c.exp - iv.exp)))
        lo == CmpDigits(c4, iv.lo)
        hi == CmpDigits(c4, iv.hi)
    IN  IF iv.closed THEN lo >= 0 /\ hi <= 0 ELSE lo > 0 /\ hi < 0

\* of the two n-digit neighbours of the exact value of the double, the nearer
\* one (near) and the one on the other side (far), the first that reads back
\* as the double; no digits when neither does
FirstReadingBack(iv, near, far, n) ==
    IF n >= ReprMaxDigits THEN near
    ELSE IF ReadsBack(iv, near) THEN near
    ELSE IF ReadsBack(iv, far) THEN far
    ELSE [digits |-> <<>>, exp |-> 0]

\* the n-digit string that reads back as the double, or no digits when there
\* is none; exact * 10^iv.exp is the exact value of the double (each
\* candidate is computed once)
ReprCandidate(iv, exact, n) ==
    CHOOSE c \in { FirstReadingBack(iv, near, IF near = down THEN NextUp(down) ELSE down, n) :
                     near \in {RoundHalfEven(exact, iv.exp, n)},
                     down \in {Truncate(exact, iv.exp, n)} } : TRUE

\* the shortest digit string that reads back as the double of interval iv; of
\* the strings of that length the one nearest to its exact value
RECURSIVE ShortestRepr(_, _, _, _)
ShortestRepr(sign, iv, exact, n) ==
    LET pick == ReprCandidate(iv, exact, n)
    IN  IF Len(pick.digits) = 0 THEN ShortestRepr(sign, iv, exact, n + 1)
        ELSE LET nz == Normalize(pick.digits, pick.exp)
             IN  [sign |-> sign, digits |-> nz.digits, exp |-> nz.exp]

\* repr of the non-zero double x: its exact value is x.m * 2^x.q
ReprOfDouble(x) ==
    CHOOSE r \in { ShortestRepr(x.sign, iv, exact, 1) :
                     iv \in {ReprInterval(x)},
                     exact \in {IF x.q < 0 THEN MulPow5(x.m, -x.q)
                                ELSE MulPow2(x.m, x.q)} } : TRUE

\* float(d) as json.dumps renders it: [sign, digits, exp] of the repr
float(d) ==
    CHOOSE r \in { IF IsZeroDigits(x.m) THEN [sign |-> d.sign, digits |-> <<0>>, exp |-> 0]
                   ELSE ReprOfDouble(x) :
                     x \in {NearestDouble(d.sign, d.digits, d.exp)} } : TRUE

\* ------------------------------------------------------------------------
\* Bounds of the model
\* ------------------------------------------------------------------------

\* longest run of consecutive non-responses the device produces
MaxRun == 8
\* number of polling cycles that publish both readings
MaxCycles == 1
\* number of broker reconnects performed by the network thread
MaxReconnects == 1

\* ------------------------------------------------------------------------
\* Device responses
\* ------------------------------------------------------------------------

\* (raw value, multiplier, divisor) triples a genuine response may carry
Readings == { <<12345, 1, 1000>>, <<1, 1, 3>>, <<7, 1, 0>> }

\* the request returned None
NoResponse == [present |-> FALSE, timestamp |-> FALSE, reading |-> <<0, 0, 1>>]
\* a response object whose timestamp is None
NoTimestamp == [present |-> TRUE, timestamp |-> FALSE, reading |-> <<0, 0, 1>>]
GenuineResponses == { [present |-> TRUE, timestamp |-> TRUE, reading |-> r] : r \in Readings }
Responses == {NoResponse, NoTimestamp} \cup GenuineResponses

\* `not response or not response.timestamp`                 (lines 154, 171)
IsNonResponse(response) == ~response.present \/ ~response.timestamp

\* value of a local that has not been assigned yet
Unset == [sign |-> 0, digits |-> <<>>, exp |-> 0]

\* Decimal(...) * multiplier / divisor raises for a zero divisor
ConvertRaises(response) == response.reading[3] = 0

ConvertResponse(response) ==
    convert(response.reading[1], response.reading[2], response.reading[3])

\* ------------------------------------------------------------------------
\* MQTT topics and payloads
\* ------------------------------------------------------------------------

Topics == {"availability", "current_summation/config", "instantaneous_demand/config",
           "current_summation/state", "instantaneous_demand/state"}
StateTopics == {"current_summation/state", "instantaneous_demand/state"}
ConfigTopics == {"current_summation/config", "instantaneous_demand/config"}

NoMessage == [kind |-> "none", text |-> "", reading |-> Unset, retain |-> FALSE]
Availability(text) == [kind |-> "availability", text |-> text, reading |-> Unset, retain |-> TRUE]
\* json.dumps(<discovery config>), retained                 (lines 102-124)
DiscoveryConfig(unit) == [kind |-> "config", text |-> unit, reading |-> Unset, retain |-> TRUE]
\* json.dumps({'reading': float(value)}), retained          (lines 189, 196)
StateMessage(value) ==
    [kind |-> "state", text |-> "",
     reading |-> float(value),
     retain |-> TRUE]

\* ------------------------------------------------------------------------
\* State
\* ------------------------------------------------------------------------

VARIABLES
    pc,                             \* position of the main thread in run()
    exit_status,                    \* 0 while running, 1 after os._exit(1)
    channel_open,                   \* the device link is open (result of start_serial)
    device_info,                    \* get_device_info() returned an object
    meter_mac,                      \* the initial demand carried a meter MAC
    emu_unresponsive,               \* consecutive non-response counter
    current_summation_response,     \* local of run()
    instantaneous_demand_response,  \* local of run()
    current_summation,              \* local of run(), a Decimal
    instantaneous_demand,           \* local of run(), a Decimal
    will,                           \* last will registered with the client
    connect_called,                 \* client.connect() has returned
    loop_started,                   \* client.loop_start() has been called
    on_connect_set,                 \* client.on_connect is on_connect
    connack_pending,                \* a CONNACK waits for the network thread
    reconnects,                     \* reconnects done by the network thread
    published,                      \* per topic: number of publishes, last message
    \* history variables, read by the properties only
    run_length,                     \* non-responses since the last genuine response
    sleeps_in_run,                  \* sleeps taken in the current run
    serial_calls,                   \* stop_serial/start_serial calls of the current run
    last_step,                      \* what the loop did last: request, sleep, reset, ...
    counter_before,                 \* emu_unresponsive before the last request
    id_misses,                      \* consecutive cycles whose demand request failed
    connack_unanswered,             \* a CONNACK was handled, no "online" since
    cycle                           \* facts about the current cycle

vars == <<pc, exit_status, channel_open, device_info, meter_mac, emu_unresponsive,
          current_summation_response, instantaneous_demand_response,
          current_summation, instantaneous_demand,
          will, connect_called, loop_started, on_connect_set, connack_pending,
          reconnects, published,
          run_length, sleeps_in_run, serial_calls, last_step,
          counter_before, id_misses, connack_unanswered, cycle>>

programVars == <<channel_open, device_info, meter_mac, emu_unresponsive,
                 current_summation_response, instantaneous_demand_response,
                 current_summation, instantaneous_demand>>
mqttVars == <<will, connect_called, loop_started, on_connect_set, connack_pending,
              reconnects, published>>
historyVars == <<run_length, sleeps_in_run, serial_calls,
                 last_step, counter_before, id_misses, connack_unanswered, cycle>>

NewCycle == [cs_genuine |-> FALSE, id_requested |-> FALSE, id_genuine |-> FALSE,
             cs_published |-> FALSE, id_published |-> FALSE,
             sleeps |-> 0, resets |-> 0]

Init ==
    /\ pc = "start_serial"
    /\ exit_status = 0
    /\ channel_open = FALSE
    /\ device_info = FALSE
    /\ meter_mac = FALSE
    /\ emu_unresponsive = 0
    /\ current_summation_response = NoResponse
    /\ instantaneous_demand_response = NoResponse
    /\ current_summation = Unset
    /\ instantaneous_demand = Unset
    /\ will = NoMessage
    /\ connect_called = FALSE
    /\ loop_started = FALSE
    /\ on_connect_set = FALSE
    /\ connack_pending = FALSE
    /\ reconnects = 0
    /\ published = [t \in Topics |-> [count |-> 0, last |-> NoMessage]]
    /\ run_length = 0
    /\ sleeps_in_run = 0
    /\ serial_calls = <<>>
    /\ last_step = "none"
    /\ counter_before = 0
    /\ id_misses = 0
    /\ connack_unanswered = FALSE
    /\ cycle = NewCycle

\* client.publish(topic, payload, retain=True)
Publish(pub, topic, message) ==
    [pub EXCEPT ![topic] = [count |-> @.count + 1, last |-> message]]

\* an exception leaves run(); main() prints it and calls os._exit(1)   (lines 43-49)
Raise ==
    /\ pc' = "exited"
    /\ exit_status' = 1

\* ------------------------------------------------------------------------
\* Startup                                                   (lines 52-100)
\* ------------------------------------------------------------------------

\* variant of StartSerial that does not look at the result
StartSerialUnchecked ==
    /\ pc = "start_serial"
    /\ \E result \in BOOLEAN : channel_open' = result
    /\ pc' = "set_schedule_default"
    /\ UNCHANGED <<exit_status, device_info, meter_mac, emu_unresponsive,
                   current_summation_response, instantaneous_demand_response,
                   current_summation, instantaneous_demand>>
    /\ UNCHANGED mqttVars
    /\ UNCHANGED historyVars

\* result = emu.start_serial(...); if not result: raise ValueError
StartSerial ==
    /\ pc = "start_serial"
    /\ \E result \in BOOLEAN :
          /\ channel_open' = result
          /\ IF result THEN pc' = "set_schedule_default" /\ UNCHANGED exit_status
             ELSE Raise
    /\ UNCHANGED <<device_info, meter_mac, emu_unresponsive,
                   current_summation_response, instantaneous_demand_response,
                   current_summation, instantaneous_demand>>
    /\ UNCHANGED mqttVars
    /\ UNCHANGED historyVars

\* emu.set_schedule_default()
SetScheduleDefault ==
    /\ pc = "set_schedule_default"
    /\ pc' = "get_device_info"
    /\ UNCHANGED <<exit_status, programVars, mqttVars, historyVars>>

\* device_info = emu.get_device_info()
GetDeviceInfo ==
    /\ pc = "get_device_info"
    /\ \E answered \in BOOLEAN : device_info' = answered
    /\ pc' = "get_initial_demand"
    /\ UNCHANGED <<exit_status, channel_open, meter_mac, emu_unresponsive,
                   current_summation_response, instantaneous_demand_response,
                   current_summation, instantaneous_demand>>
    /\ UNCHANGED <<mqttVars, historyVars>>

\* meter_mac = emu.get_instantaneous_demand().meter_mac: None has no meter_mac
GetInitialDemand ==
    /\ pc = "get_initial_demand"
    /\ \E answered \in BOOLEAN :
          /\ meter_mac' = answered
          /\ IF answered THEN pc' = "mqtt_device" /\ UNCHANGED exit_status
             ELSE Raise
    /\ UNCHANGED <<channel_open, device_info, emu_unresponsive,
                   current_summation_response, instantaneous_demand_response,
                   current_summation, instantaneous_demand>>
    /\ UNCHANGED <<mqttVars, historyVars>>

\* mqtt_device = {'manufacturer': device_info.manufacturer, ...}; mqtt.Client(...)
BuildMqttDevice ==
    /\ pc = "mqtt_device"
    /\ IF device_info THEN pc' = "will_set" /\ UNCHANGED exit_status
       ELSE Raise
    /\ UNCHANGED <<programVars, mqttVars, historyVars>>

\* variant of WillSet that registers no will
WillSetSkipped ==
    /\ pc = "will_set"
    /\ pc' = "connect"
    /\ UNCHANGED <<exit_status, programVars, historyVars, mqttVars>>

\* client.will_set(availability, payload='offline', retain=True)
WillSet ==
    /\ pc = "will_set"
    /\ will' = Availability("offline")
    /\ pc' = "connect"
    /\ UNCHANGED <<exit_status, programVars, historyVars>>
    /\ UNCHANGED <<connect_called, loop_started, on_connect_set, connack_pending,
                   reconnects, published>>

\* client.connect(hostname, port): raises when the broker cannot be reached;
\* otherwise the broker answers with a CONNACK
Connect ==
    /\ pc = "connect"
    /\ \E reached \in BOOLEAN :
          IF reached
          THEN /\ connect_called' = TRUE
               /\ connack_pending' = TRUE
               /\ pc' = "loop_start"
               /\ UNCHANGED exit_status
          ELSE /\ Raise
               /\ UNCHANGED <<connect_called, connack_pending>>
    /\ UNCHANGED <<programVars, historyVars>>
    /\ UNCHANGED <<will, loop_started, on_connect_set, reconnects, published>>

\* client.loop_start(): the network thread runs from here on
LoopStart ==
    /\ pc = "loop_start"
    /\ loop_started' = TRUE
    /\ pc' = "on_connect_call"
    /\ UNCHANGED <<exit_status, programVars, historyVars>>
    /\ UNCHANGED <<will, connect_called, on_connect_set, connack_pending,
                   reconnects, published>>

\* ------------------------------------------------------------------------
\* Availability and discovery                                (lines 126-147)
\* ------------------------------------------------------------------------

\* variant of on_connect that also announces the discovery descriptors
on_connect_with_discovery(pub) ==
    Publish(Publish(Publish(pub, "availability", Availability("online")),
                    "current_summation/config", DiscoveryConfig("kWh")),
            "instantaneous_demand/config", DiscoveryConfig("kW"))

\* def on_connect(client, *args): client.publish(availability, 'online', retain=True)
on_connect(pub) == Publish(pub, "availability", Availability("online"))

\* on_connect(client), called inline
OnConnectCall ==
    /\ pc = "on_connect_call"
    /\ published' = on_connect(published)
    /\ connack_unanswered' = FALSE
    /\ pc' = "set_on_connect"
    /\ UNCHANGED <<exit_status, programVars>>
    /\ UNCHANGED <<will, connect_called, loop_started, on_connect_set,
                   connack_pending, reconnects>>
    /\ UNCHANGED <<run_length, sleeps_in_run, serial_calls, last_step,
                   counter_before, id_misses, cycle>>

\* client.on_connect = on_connect
SetOnConnect ==
    /\ pc = "set_on_connect"
    /\ on_connect_set' = TRUE
    /\ pc' = "publish_cs_config"
    /\ UNCHANGED <<exit_status, programVars, historyVars>>
    /\ UNCHANGED <<will, connect_called, loop_started, connack_pending,
                   reconnects, published>>

\* client.publish(current_summation/config, ..., retain=True)
PublishCsConfig ==
    /\ pc = "publish_cs_config"
    /\ published' = Publish(published, "current_summation/config", DiscoveryConfig("kWh"))
    /\ pc' = "publish_id_config"
    /\ UNCHANGED <<exit_status, programVars, historyVars>>
    /\ UNCHANGED <<will, connect_called, loop_started, on_connect_set,
                   connack_pending, reconnects>>

\* client.publish(instantaneous_demand/config, ..., retain=True); emu_unresponsive = 0
PublishIdConfig ==
    /\ pc = "publish_id_config"
    /\ published' = Publish(published, "instantaneous_demand/config", DiscoveryConfig("kW"))
    /\ emu_unresponsive' = 0
    /\ pc' = "request_cs"
    /\ UNCHANGED <<exit_status, channel_open, device_info, meter_mac,
                   current_summation_response, instantaneous_demand_response,
                   current_summation, instantaneous_demand>>
    /\ UNCHANGED historyVars
    /\ UNCHANGED <<will, connect_called, loop_started, on_connect_set,
                   connack_pending, reconnects>>

\* ------------------------------------------------------------------------
\* Polling loop                                              (lines 148-201)
\* ------------------------------------------------------------------------

Min(a, b) == IF a < b THEN a ELSE b

\* variant of CounterAfter that forgets earlier non-responses
CounterAfterRestarted(response, counter) ==
    IF IsNonResponse(response) THEN 1 ELSE counter

\* variant of CounterAfter that keeps the count on a genuine response
CounterAfterKept(response, counter) ==
    IF IsNonResponse(response) THEN counter + 1 ELSE counter

\* emu_unresponsive after a request: += 1 on a non-response, = 0 otherwise
\*                                                  (lines 154-155, 165, 171-172, 182)
CounterAfter(response, counter) ==
    IF IsNonResponse(response) THEN counter + 1 ELSE 0

\* variant of AfterNonResponse that only ever backs off
AfterNonResponseNeverResets(counter) == "non_response_sleep"

\* variant of AfterNonResponse that gives up after too many non-responses
AfterNonResponseGivesUp(counter) ==
    IF counter > CLIENT_UNRESPONSIVE_MAX THEN "exited" ELSE "non_response_sleep"

\* variant of AfterNonResponse that resets on reaching the threshold
AfterNonResponseAtThreshold(counter) ==
    IF counter >= CLIENT_UNRESPONSIVE_MAX THEN "stop_serial" ELSE "non_response_sleep"

\* where the loop goes after counting a non-response      (lines 156-164, 173-181)
AfterNonResponse(counter) ==
    IF counter > CLIENT_UNRESPONSIVE_MAX THEN "stop_serial" ELSE "non_response_sleep"

\* current_summation_response = emu.get_current_summation_delivered(), the test
\* of the response and the update of emu_unresponsive
RequestCurrentSummation ==
    /\ pc = "request_cs"
    /\ \E response \in Responses :
          /\ IsNonResponse(response) => run_length < MaxRun
          /\ current_summation_response' = response
          /\ emu_unresponsive' = CounterAfter(response, emu_unresponsive)
          /\ IF IsNonResponse(response)
             THEN /\ pc' = AfterNonResponse(emu_unresponsive')
                  /\ run_length' = run_length + 1
                  /\ UNCHANGED <<sleeps_in_run, serial_calls>>
             ELSE /\ pc' = "convert_cs"
                  /\ run_length' = 0
                  /\ sleeps_in_run' = 0
                  /\ serial_calls' = <<>>
          /\ cycle' = [NewCycle EXCEPT !.cs_genuine = ~IsNonResponse(response)]
          /\ id_misses' = IF IsNonResponse(response) THEN 0 ELSE id_misses
    /\ counter_before' = emu_unresponsive
    /\ last_step' = "request_cs"
    /\ UNCHANGED <<exit_status, channel_open, device_info, meter_mac,
                   instantaneous_demand_response, current_summation,
                   instantaneous_demand, connack_unanswered>>
    /\ UNCHANGED mqttVars

\* variant of ConvertCurrentSummation that treats a zero divisor as a non-response
ConvertCurrentSummationTolerant ==
    /\ pc = "convert_cs"
    /\ IF ConvertRaises(current_summation_response)
       THEN pc' = "non_response_sleep" /\ UNCHANGED <<current_summation, exit_status>>
       ELSE /\ current_summation' = ConvertResponse(current_summation_response)
            /\ pc' = "request_id"
            /\ UNCHANGED exit_status
    /\ UNCHANGED <<channel_open, device_info, meter_mac, emu_unresponsive,
                   current_summation_response, instantaneous_demand_response,
                   instantaneous_demand>>
    /\ UNCHANGED <<mqttVars, historyVars>>

\* current_summation = Decimal(summation_delivered) * multiplier / divisor
ConvertCurrentSummation ==
    /\ pc = "convert_cs"
    /\ IF ConvertRaises(current_summation_response)
       THEN Raise /\ UNCHANGED current_summation
       ELSE /\ current_summation' = ConvertResponse(current_summation_response)
            /\ pc' = "request_id"
            /\ UNCHANGED exit_status
    /\ UNCHANGED <<channel_open, device_info, meter_mac, emu_unresponsive,
                   current_summation_response, instantaneous_demand_response,
                   instantaneous_demand>>
    /\ UNCHANGED <<mqttVars, historyVars>>

\* instantaneous_demand_response = emu.get_instantaneous_demand(), the test of
\* the response and the update of emu_unresponsive
RequestInstantaneousDemand ==
    /\ pc = "request_id"
    /\ \E response \in Responses :
          /\ IsNonResponse(response) => run_length < MaxRun
          /\ (~IsNonResponse(response) /\ ~ConvertRaises(response))
                => published["current_summation/state"].count < MaxCycles
          /\ instantaneous_demand_response' = response
          /\ emu_unresponsive' = CounterAfter(response, emu_unresponsive)
          /\ IF IsNonResponse(response)
             THEN /\ pc' = AfterNonResponse(emu_unresponsive')
                  /\ run_length' = run_length + 1
                  /\ id_misses' = Min(id_misses + 1, CLIENT_UNRESPONSIVE_MAX + 1)
                  /\ UNCHANGED <<sleeps_in_run, serial_calls>>
             ELSE /\ pc' = "convert_id"
                  /\ run_length' = 0
                  /\ sleeps_in_run' = 0
                  /\ serial_calls' = <<>>
                  /\ id_misses' = 0
          /\ cycle' = [cycle EXCEPT !.id_requested = TRUE,
                                    !.id_genuine = ~IsNonResponse(response)]
    /\ counter_before' = emu_unresponsive
    /\ last_step' = "request_id"
    /\ UNCHANGED <<exit_status, channel_open, device_info, meter_mac,
                   current_summation_response, current_summation,
                   instantaneous_demand, connack_unanswered>>
    /\ UNCHANGED mqttVars

\* instantaneous_demand = Decimal(demand) * multiplier / divisor
ConvertInstantaneousDemand ==
    /\ pc = "convert_id"
    /\ IF ConvertRaises(instantaneous_demand_response)
       THEN Raise /\ UNCHANGED instantaneous_demand
       ELSE /\ instantaneous_demand' = ConvertResponse(instantaneous_demand_response)
            /\ pc' = "publish_cs_state"
            /\ UNCHANGED exit_status
    /\ UNCHANGED <<channel_open, device_info, meter_mac, emu_unresponsive,
                   current_summation_response, instantaneous_demand_response,
                   current_summation>>
    /\ UNCHANGED <<mqttVars, historyVars>>

\* variant of NonResponseSleep that goes on with the demand request
NonResponseSleepThenDemand ==
    /\ pc = "non_response_sleep"
    /\ pc' = "request_id"
    /\ sleeps_in_run' = sleeps_in_run + 1
    /\ cycle' = [cycle EXCEPT !.sleeps = @ + 1]
    /\ last_step' = "sleep"
    /\ UNCHANGED <<exit_status, programVars, mqttVars>>
    /\ UNCHANGED <<run_length, serial_calls, counter_before, id_misses,
                   connack_unanswered>>

\* time.sleep(interval_s); continue                          (lines 163-164, 180-181)
NonResponseSleep ==
    /\ pc = "non_response_sleep"
    /\ pc' = "request_cs"
    /\ sleeps_in_run' = sleeps_in_run + 1
    /\ cycle' = [cycle EXCEPT !.sleeps = @ + 1]
    /\ last_step' = "sleep"
    /\ UNCHANGED <<exit_status, programVars, mqttVars>>
    /\ UNCHANGED <<run_length, serial_calls, counter_before, id_misses,
                   connack_unanswered>>

\* variant of StopSerial that announces the device as offline
StopSerialAnnouncesOffline ==
    /\ pc = "stop_serial"
    /\ channel_open' = FALSE
    /\ published' = Publish(published, "availability", Availability("offline"))
    /\ serial_calls' = Append(serial_calls, "stop_serial")
    /\ pc' = "reset_start_serial"
    /\ last_step' = "stop_serial"
    /\ UNCHANGED <<exit_status, device_info, meter_mac, emu_unresponsive,
                   current_summation_response, instantaneous_demand_response,
                   current_summation, instantaneous_demand>>
    /\ UNCHANGED <<will, connect_called, loop_started, on_connect_set,
                   connack_pending, reconnects>>
    /\ UNCHANGED <<run_length, sleeps_in_run, counter_before, id_misses,
                   connack_unanswered, cycle>>

\* emu.stop_serial()                                         (lines 158, 175)
StopSerial ==
    /\ pc = "stop_serial"
    /\ channel_open' = FALSE
    /\ serial_calls' = Append(serial_calls, "stop_serial")
    /\ pc' = "reset_start_serial"
    /\ last_step' = "stop_serial"
    /\ UNCHANGED <<exit_status, device_info, meter_mac, emu_unresponsive,
                   current_summation_response, instantaneous_demand_response,
                   current_summation, instantaneous_demand>>
    /\ UNCHANGED mqttVars
    /\ UNCHANGED <<run_length, sleeps_in_run, counter_before, id_misses,
                   connack_unanswered, cycle>>

\* variant of ResetStartSerial that leaves emu_unresponsive as it is
ResetStartSerialKeepsCounter ==
    /\ pc = "reset_start_serial"
    /\ \E result \in BOOLEAN : channel_open' = result
    /\ serial_calls' = Append(serial_calls, "start_serial")
    /\ pc' = "request_cs"
    /\ last_step' = "reset"
    /\ id_misses' = 0
    /\ cycle' = [cycle EXCEPT !.resets = @ + 1]
    /\ UNCHANGED <<exit_status, device_info, meter_mac, emu_unresponsive,
                   current_summation_response, instantaneous_demand_response,
                   current_summation, instantaneous_demand>>
    /\ UNCHANGED mqttVars
    /\ UNCHANGED <<run_length, sleeps_in_run, counter_before,
                   connack_unanswered>>

\* emu.start_serial(...), result not looked at; emu_unresponsive = 0; continue
\*                                                           (lines 159-164, 176-181)
ResetStartSerial ==
    /\ pc = "reset_start_serial"
    /\ \E result \in BOOLEAN : channel_open' = result
    /\ emu_unresponsive' = 0
    /\ serial_calls' = Append(serial_calls, "start_serial")
    /\ pc' = "request_cs"
    /\ last_step' = "reset"
    /\ id_misses' = 0
    /\ cycle' = [cycle EXCEPT !.resets = @ + 1]
    /\ UNCHANGED <<exit_status, device_info, meter_mac,
                   current_summation_response, instantaneous_demand_response,
                   current_summation, instantaneous_demand>>
    /\ UNCHANGED mqttVars
    /\ UNCHANGED <<run_length, sleeps_in_run, counter_before,
                   connack_unanswered>>

\* variant of PublishCsState that publishes the demand on the summation topic
PublishCsStateDemand ==
    /\ pc = "publish_cs_state"
    /\ published' = Publish(published, "current_summation/state",
                            StateMessage(instantaneous_demand))
    /\ cycle' = [cycle EXCEPT !.cs_published = TRUE]
    /\ pc' = "publish_id_state"
    /\ last_step' = "publish"
    /\ UNCHANGED <<exit_status, programVars>>
    /\ UNCHANGED <<will, connect_called, loop_started, on_connect_set,
                   connack_pending, reconnects>>
    /\ UNCHANGED <<run_length, sleeps_in_run, serial_calls, counter_before,
                   id_misses, connack_unanswered>>

\* client.publish(current_summation/state, {'reading': float(current_summation)})
PublishCsState ==
    /\ pc = "publish_cs_state"
    /\ published' = Publish(published, "current_summation/state",
                            StateMessage(current_summation))
    /\ cycle' = [cycle EXCEPT !.cs_published = TRUE]
    /\ pc' = "publish_id_state"
    /\ last_step' = "publish"
    /\ UNCHANGED <<exit_status, programVars>>
    /\ UNCHANGED <<will, connect_called, loop_started, on_connect_set,
                   connack_pending, reconnects>>
    /\ UNCHANGED <<run_length, sleeps_in_run, serial_calls, counter_before,
                   id_misses, connack_unanswered>>

\* variant of PublishIdState that publishes nothing
PublishIdStateSkipped ==
    /\ pc = "publish_id_state"
    /\ pc' = "sleep"
    /\ last_step' = "publish"
    /\ UNCHANGED <<exit_status, programVars, mqttVars>>
    /\ UNCHANGED <<run_length, sleeps_in_run, serial_calls, counter_before,
                   id_misses, connack_unanswered, cycle>>

\* client.publish(instantaneous_demand/state, {'reading': float(instantaneous_demand)})
PublishIdState ==
    /\ pc = "publish_id_state"
    /\ published' = Publish(published, "instantaneous_demand/state",
                            StateMessage(instantaneous_demand))
    /\ cycle' = [cycle EXCEPT !.id_published = TRUE]
    /\ pc' = "sleep"
    /\ last_step' = "publish"
    /\ UNCHANGED <<exit_status, programVars>>
    /\ UNCHANGED <<will, connect_called, loop_started, on_connect_set,
                   connack_pending, reconnects>>
    /\ UNCHANGED <<run_length, sleeps_in_run, serial_calls, counter_before,
                   id_misses, connack_unanswered>>

\* variant of Sleep that starts the next cycle at once
SleepSkipped ==
    /\ pc = "sleep"
    /\ pc' = "request_cs"
    /\ last_step' = "sleep"
    /\ UNCHANGED <<exit_status, programVars, mqttVars>>
    /\ UNCHANGED <<run_length, sleeps_in_run, serial_calls, counter_before,
                   id_misses, connack_unanswered, cycle>>

\* time.sleep(interval_s) at the end of a cycle              (line 201)
Sleep ==
    /\ pc = "sleep"
    /\ pc' = "request_cs"
    /\ cycle' = [cycle EXCEPT !.sleeps = @ + 1]
    /\ last_step' = "sleep"
    /\ UNCHANGED <<exit_status, programVars, mqttVars>>
    /\ UNCHANGED <<run_length, sleeps_in_run, serial_calls, counter_before,
                   id_misses, connack_unanswered>>

\* ------------------------------------------------------------------------
\* The network thread of the MQTT client (started by loop_start)
\* ------------------------------------------------------------------------

\* the thread reads a CONNACK and calls client.on_connect if it is set
HandleConnack ==
    /\ pc # "exited"
    /\ loop_started
    /\ connack_pending
    /\ connack_pending' = FALSE
    /\ IF on_connect_set
       THEN published' = on_connect(published) /\ connack_unanswered' = FALSE
       ELSE UNCHANGED published /\ connack_unanswered' = TRUE
    /\ UNCHANGED <<pc, exit_status, programVars>>
    /\ UNCHANGED <<will, connect_called, loop_started, on_connect_set, reconnects>>
    /\ UNCHANGED <<run_length, sleeps_in_run, serial_calls, last_step,
                   counter_before, id_misses, cycle>>

\* the connection to the broker is lost and the thread connects again
BrokerReconnect ==
    /\ pc # "exited"
    /\ loop_started
    /\ ~connack_pending
    /\ reconnects < MaxReconnects
    /\ reconnects' = reconnects + 1
    /\ connack_pending' = TRUE
    /\ UNCHANGED <<pc, exit_status, programVars, historyVars>>
    /\ UNCHANGED <<will, connect_called, loop_started, on_connect_set, published>>

\* ------------------------------------------------------------------------
\* Specification
\* ------------------------------------------------------------------------

Next ==
    \/ StartSerial
    \/ SetScheduleDefault
    \/ GetDeviceInfo
    \/ GetInitialDemand
    \/ BuildMqttDevice
    \/ WillSet
    \/ Connect
    \/ LoopStart
    \/ OnConnectCall
    \/ SetOnConnect
    \/ PublishCsConfig
    \/ PublishIdConfig
    \/ RequestCurrentSummation
    \/ ConvertCurrentSummation
    \/ RequestInstantaneousDemand
    \/ ConvertInstantaneousDemand
    \/ NonResponseSleep
    \/ StopSerial
    \/ ResetStartSerial
    \/ PublishCsState
    \/ PublishIdState
    \/ Sleep
    \/ HandleConnack
    \/ BrokerReconnect

Spec == Init /\ [][Next]_vars

\* ------------------------------------------------------------------------
\* Properties
\* ------------------------------------------------------------------------

HandshakePcs == {"set_schedule_default", "get_device_info", "get_initial_demand",
                 "mqtt_device"}
StartupPcs == {"start_serial"} \cup HandshakePcs \cup {"will_set", "connect"}
SetupPcs == {"will_set", "connect", "loop_start", "on_connect_call", "set_on_connect",
             "publish_cs_config", "publish_id_config"}
ResetPcs == {"stop_serial", "reset_start_serial"}
LoopPcs == {"request_cs", "convert_cs", "request_id", "convert_id",
            "non_response_sleep", "publish_cs_state", "publish_id_state", "sleep"}
               \cup ResetPcs

NothingPublished == \A t \in Topics : published[t].count = 0

\* C1: during a run of N <= CLIENT_UNRESPONSIVE_MAX consecutive non-responses (no
\* genuine response in between) neither stop_serial nor start_serial has been
\* called, the counter equals N, and the loop has slept once after each
\* non-response: N times once the sleep after the Nth is done, N - 1 before it.
C1_RunWithinThreshold ==
    (run_length >= 1 /\ run_length <= CLIENT_UNRESPONSIVE_MAX) =>
        /\ pc \in {"non_response_sleep", "request_cs"}
        /\ serial_calls = <<>>
        /\ emu_unresponsive = run_length
        /\ sleeps_in_run = IF pc = "non_response_sleep" THEN run_length - 1
                           ELSE run_length

\* three non-responses in a row, three sleeps, no reset
C1_Witness ==
    /\ pc = "request_cs"
    /\ run_length = CLIENT_UNRESPONSIVE_MAX
    /\ sleeps_in_run = CLIENT_UNRESPONSIVE_MAX
    /\ emu_unresponsive = CLIENT_UNRESPONSIVE_MAX
    /\ serial_calls = <<>>

\* C2: the non-response that makes the run longer than the threshold (the 4th
\* with threshold 3) is not followed by a sleep but by stop_serial and then
\* start_serial, once each; after them the counter is 0 and the loop is at the
\* next CurrentSummation request with no sleep since the reset.
C2_ResetOnExceeding ==
    (run_length = CLIENT_UNRESPONSIVE_MAX + 1) =>
        /\ pc \in ResetPcs \cup {"request_cs"}
        /\ sleeps_in_run = CLIENT_UNRESPONSIVE_MAX
        /\ pc = "stop_serial" => serial_calls = <<>>
        /\ pc = "reset_start_serial" => serial_calls = <<"stop_serial">>
        /\ pc = "request_cs" =>
              /\ serial_calls = <<"stop_serial", "start_serial">>
              /\ emu_unresponsive = 0
              /\ last_step = "reset"

\* the reset after the 4th non-response is done
C2_Witness ==
    /\ pc = "request_cs"
    /\ run_length = CLIENT_UNRESPONSIVE_MAX + 1
    /\ serial_calls = <<"stop_serial", "start_serial">>
    /\ emu_unresponsive = 0
    /\ last_step = "reset"

\* C3: after a genuine response to a CurrentSummation or an InstantaneousDemand
\* request the counter is 0, whatever it was before the request.
C3_GenuineResponseResets ==
    /\ (last_step = "request_cs" /\ ~IsNonResponse(current_summation_response))
          => emu_unresponsive = 0
    /\ (last_step = "request_id" /\ ~IsNonResponse(instantaneous_demand_response))
          => emu_unresponsive = 0

\* a genuine response arrives when the counter stands at the threshold
C3_Witness ==
    /\ last_step = "request_cs"
    /\ ~IsNonResponse(current_summation_response)
    /\ counter_before = CLIENT_UNRESPONSIVE_MAX
    /\ emu_unresponsive = 0

\* C4, as claimed: a cycle whose CurrentSummation response was genuine has
\* published that reading even when the InstantaneousDemand request of the
\* same cycle returned a non-response.
C4_PublishedRegardlessOfDemand ==
    (cycle.cs_genuine /\ cycle.id_requested /\ ~cycle.id_genuine)
        => cycle.cs_published

\* C4, amended: the CurrentSummation reading of a cycle is published only after
\* the InstantaneousDemand request of that cycle got a genuine response too;
\* what is published then is {"reading": float(Decimal(raw) * multiplier /
\* divisor)} of the CurrentSummation response, retained; after an
\* InstantaneousDemand non-response the reading of the cycle is not published.
C4_PublishedWithDemand ==
    /\ cycle.cs_published => (cycle.cs_genuine /\ cycle.id_genuine)
    /\ (cycle.cs_genuine /\ cycle.id_requested /\ ~cycle.id_genuine)
          => ~cycle.cs_published
    /\ pc = "publish_id_state" =>
          /\ cycle.cs_published
          /\ current_summation = ConvertResponse(current_summation_response)
          /\ published["current_summation/state"].last = StateMessage(current_summation)
          /\ published["current_summation/state"].last.retain

\* the reading 1/3 has just been published while the demand reading differs
C4_Witness ==
    /\ pc = "publish_id_state"
    /\ current_summation_response.reading = <<1, 1, 3>>
    /\ instantaneous_demand_response.reading = <<12345, 1, 1000>>
    /\ published["current_summation/state"].count = 1

\* C5, as claimed: once the InstantaneousDemand request has gone unanswered in
\* more than CLIENT_UNRESPONSIVE_MAX consecutive cycles the loop resets the
\* device connection instead of going back to sleep.
C5_DemandNonResponsesReset ==
    id_misses > CLIENT_UNRESPONSIVE_MAX => pc \in ResetPcs

\* C6, as claimed: when start_serial fails during a forced reset the process
\* exits with status 1; outside of the initial connect and of the reset itself
\* the loop never runs on a link that is not open.
C6_ResetFailureIsFatal ==
    (~channel_open /\ pc \notin {"start_serial", "reset_start_serial"})
        => (pc = "exited" /\ exit_status = 1)

\* C7: a failed initial connect never gets past line 65, a missing initial
\* demand never past line 75 and a missing device info never past line 78;
\* the process then exits with status 1, having published nothing and made
\* no broker connection.
C7_StartupFailureExits ==
    /\ pc \in HandshakePcs => channel_open
    /\ pc = "mqtt_device" => meter_mac
    /\ pc \in SetupPcs => channel_open
    /\ pc \in SetupPcs \cup LoopPcs => (device_info /\ meter_mac)
    /\ pc = "exited" => exit_status = 1
    /\ exit_status = 1 => pc = "exited"
    /\ (pc = "exited" /\ ~(device_info /\ meter_mac))
          => (NothingPublished /\ ~connect_called /\ ~loop_started)
    /\ pc \in StartupPcs => (NothingPublished /\ ~connect_called)

\* the device connected but get_device_info() returned nothing
C7_Witness ==
    /\ pc = "exited"
    /\ exit_status = 1
    /\ channel_open
    /\ meter_mac
    /\ ~device_info
    /\ NothingPublished
    /\ ~connect_called

\* C8: each discovery descriptor is published at most once, retained; both are
\* published before the loop starts and so before any state publish; nothing
\* that happens later (non-responses, device resets, broker reconnects)
\* publishes them again.
C8_DiscoveryOnce ==
    /\ \A t \in ConfigTopics :
          /\ published[t].count <= 1
          /\ published[t].count = 1 =>
                (published[t].last.kind = "config" /\ published[t].last.retain)
    /\ published["current_summation/config"].count = 1
          => published["current_summation/config"].last = DiscoveryConfig("kWh")
    /\ published["instantaneous_demand/config"].count = 1
          => published["instantaneous_demand/config"].last = DiscoveryConfig("kW")
    /\ (pc \in LoopPcs \/ \E t \in StateTopics : published[t].count > 0)
          => \A t \in ConfigTopics : published[t].count = 1

\* both readings published, then a device reset, with a broker reconnect handled
C8_Witness ==
    /\ pc = "request_cs"
    /\ last_step = "reset"
    /\ published["instantaneous_demand/state"].count >= 1
    /\ reconnects >= 1
    /\ ~connack_pending
    /\ published["availability"].count >= 2
    /\ \A t \in ConfigTopics : published[t].count = 1

\* C9, as claimed: a connect acknowledgement handled by the network thread is
\* followed by a publish of "online": one that was handled without the callback
\* publishing still has the inline call of on_connect ahead of it.
C9_OnlineAfterEveryConnack ==
    connack_unanswered => pc = "on_connect_call"

\* C10: the last will "offline" (retained, availability topic) is registered
\* when connect is called, hence before anything is published.
C10_WillBeforeConnect ==
    /\ (pc = "connect" \/ connect_called) => will = Availability("offline")
    /\ ~NothingPublished => (connect_called /\ will = Availability("offline"))
    /\ will.retain \/ will = NoMessage

\* "online" has been published with the will in place
C10_Witness ==
    /\ connect_called
    /\ will = Availability("offline")
    /\ published["availability"].count = 1
    /\ published["availability"].last = Availability("online")

\* C11: a device failure in the loop (no response, or a response without a
\* timestamp) never ends the process: it leads to the sleep or to the reset,
\* and from there to the next CurrentSummation request; the process is running
\* throughout a run of failures, and when it has exited from the loop the last
\* response was a genuine one whose conversion raised.
C11_FailuresNeverTerminate ==
    /\ run_length >= 1 => (pc # "exited" /\ exit_status = 0)
    /\ (last_step = "request_cs" /\ IsNonResponse(current_summation_response))
          => pc \in {"non_response_sleep", "stop_serial"}
    /\ (last_step = "request_id" /\ IsNonResponse(instantaneous_demand_response))
          => pc \in {"non_response_sleep", "stop_serial"}
    /\ last_step = "stop_serial" => pc = "reset_start_serial"
    /\ last_step \in {"sleep", "reset"} => pc = "request_cs"
    /\ (pc = "exited" /\ last_step # "none") =>
          \/ /\ last_step = "request_cs"
             /\ ~IsNonResponse(current_summation_response)
             /\ ConvertRaises(current_summation_response)
          \/ /\ last_step = "request_id"
             /\ ~IsNonResponse(instantaneous_demand_response)
             /\ ConvertRaises(instantaneous_demand_response)

\* five failures in a row, with a reset among them, and the loop is about to
\* issue the next request
C11_Witness ==
    /\ pc = "request_cs"
    /\ exit_status = 0
    /\ last_step = "sleep"
    /\ run_length = CLIENT_UNRESPONSIVE_MAX + 2
    /\ serial_calls = <<"stop_serial", "start_serial">>

\* digit string plus a small natural
AddSmall(ds, m) == StripLeading(MulSmallCarry(ds, 1, m))

\* d.digits * |divisor| and |raw * multiplier| * 10^(-d.exp), the two sides of
\* d = raw * multiplier / divisor brought to integers (d.exp <= 0)
ScaledValue(d, reading) == MulSmall(d.digits, Abs(reading[3]))
ScaledQuotient(d, reading) ==
    StripLeading(NatDigits(Abs(reading[1] * reading[2])) \o Zeros(-d.exp))

QuotientSign(reading) ==
    IF (reading[1] * reading[2] < 0) # (reading[3] < 0) THEN 1 ELSE 0

\* d is exactly raw * multiplier / divisor
IsExact(d, reading) ==
    /\ d.exp <= 0
    /\ ScaledValue(d, reading) = ScaledQuotient(d, reading)
    /\ (reading[1] * reading[2] # 0) => d.sign = QuotientSign(reading)

\* |d - raw * multiplier / divisor| is at most half a unit of d's last digit
WithinHalfUnit(d, reading) ==
    LET a == MulSmall(ScaledValue(d, reading), 2)
        b == MulSmall(ScaledQuotient(d, reading), 2)
    IN  /\ d.exp <= 0
        /\ CmpDigits(a, AddSmall(b, Abs(reading[3]))) <= 0
        /\ CmpDigits(AddSmall(a, Abs(reading[3])), b) >= 0
        /\ d.sign = QuotientSign(reading)

\* d is raw * multiplier / divisor in the default Decimal context: exact when
\* it has fewer than DecimalPrec digits, else correct to DecimalPrec digits
IsRounded(d, reading) ==
    /\ Len(d.digits) <= DecimalPrec
    /\ WithinHalfUnit(d, reading)
    /\ Len(d.digits) < DecimalPrec => IsExact(d, reading)

\* C12, as claimed: the value converted from a response with a divisor other
\* than 0 equals raw * multiplier / divisor exactly.
C12_ConversionExact ==
    /\ pc = "request_id"
          => IsExact(current_summation, current_summation_response.reading)
    /\ pc = "publish_cs_state"
          => IsExact(instantaneous_demand, instantaneous_demand_response.reading)

\* C12, amended: the converted value is raw * multiplier / divisor rounded to
\* 28 significant digits: exact when the quotient has fewer digits (12345, 1,
\* 1000 gives 12.345, published as the reading 12.345), within half a unit of
\* the 28th digit otherwise; the value published is the one converted from the
\* response of this cycle.
C12_ConversionRounded ==
    /\ pc = "request_id" =>
          /\ IsRounded(current_summation, current_summation_response.reading)
          /\ current_summation_response.reading = <<12345, 1, 1000>>
                => current_summation = [sign |-> 0, digits |-> <<1, 2, 3, 4, 5>>, exp |-> -3]
    /\ pc = "publish_cs_state" =>
          /\ IsRounded(instantaneous_demand, instantaneous_demand_response.reading)
          /\ current_summation = ConvertResponse(current_summation_response)
    /\ (pc = "publish_id_state"
           /\ current_summation_response.reading = <<12345, 1, 1000>>)
          => published["current_summation/state"].last.reading
                = [sign |-> 0, digits |-> <<1, 2, 3, 4, 5>>, exp |-> -3]

\* 1/3 has been converted to 28 digits and 12345/1000 to 12.345
C12_Witness ==
    /\ pc = "publish_cs_state"
    /\ current_summation_response.reading = <<1, 1, 3>>
    /\ Len(current_summation.digits) = DecimalPrec
    /\ current_summation.exp = -DecimalPrec
    /\ ~IsExact(current_summation, current_summation_response.reading)
    /\ instantaneous_demand_response.reading = <<12345, 1, 1000>>
    /\ instantaneous_demand = [sign |-> 0, digits |-> <<1, 2, 3, 4, 5>>, exp |-> -3]

\* C13: the counter stays within 0 .. CLIENT_UNRESPONSIVE_MAX + 1; it has the
\* value CLIENT_UNRESPONSIVE_MAX + 1 only between the increment and the end of
\* the reset (before stop_serial or before start_serial), and it is 0 when the
\* reset is done.
C13_CounterRange ==
    /\ emu_unresponsive \in 0..(CLIENT_UNRESPONSIVE_MAX + 1)
    /\ emu_unresponsive = CLIENT_UNRESPONSIVE_MAX + 1 => pc \in ResetPcs
    /\ pc \in ResetPcs => emu_unresponsive = CLIENT_UNRESPONSIVE_MAX + 1
    /\ last_step = "reset" => emu_unresponsive = 0

\* the counter stands above the threshold, stop_serial done, start_serial next
C13_Witness ==
    /\ pc = "reset_start_serial"
    /\ emu_unresponsive = CLIENT_UNRESPONSIVE_MAX + 1
    /\ counter_before = CLIENT_UNRESPONSIVE_MAX

\* C14: in a cycle whose CurrentSummation request got a non-response no
\* InstantaneousDemand request is issued and nothing is published to a state
\* topic; the loop sleeps (counter within the threshold) or resets (counter
\* above it) and is then back at the CurrentSummation request.
C14_ShortCircuit ==
    /\ ~cycle.cs_genuine =>
          (~cycle.id_requested /\ ~cycle.cs_published /\ ~cycle.id_published)
    /\ pc \in {"convert_cs", "request_id", "convert_id", "publish_cs_state",
               "publish_id_state", "sleep"} => cycle.cs_genuine
    /\ (last_step = "request_cs" /\ IsNonResponse(current_summation_response)) =>
          /\ ~cycle.cs_genuine
          /\ pc = IF emu_unresponsive > CLIENT_UNRESPONSIVE_MAX
                  THEN "stop_serial" ELSE "non_response_sleep"
    /\ (~cycle.cs_genuine /\ last_step \in {"sleep", "reset"}) => pc = "request_cs"
    /\ (~cycle.cs_genuine /\ last_step = "stop_serial") => pc = "reset_start_serial"

\* after one published cycle a CurrentSummation non-response was slept on, and
\* the loop is back at the CurrentSummation request with nothing more published
C14_Witness ==
    /\ pc = "request_cs"
    /\ last_step = "sleep"
    /\ ~cycle.cs_genuine
    /\ cycle.sleeps = 1
    /\ emu_unresponsive = 1
    /\ published["current_summation/state"].count = 1
    /\ published["instantaneous_demand/state"].count = 1

\* C15: when the loop comes back to the CurrentSummation request, the
\* iteration just finished has done exactly one of: one sleep (both readings
\* published, or a non-response with the counter within the threshold), one
\* device reset (a non-response with the counter above it); before that point
\* it has done neither.
C15_OneSleepOrOneReset ==
    /\ cycle.sleeps + cycle.resets <= 1
    /\ (pc = "request_cs" /\ last_step # "none") =>
          /\ cycle.sleeps + cycle.resets = 1
          /\ cycle.sleeps = 1 =>
                /\ last_step = "sleep"
                /\ \/ cycle.cs_published /\ cycle.id_published
                   \/ /\ ~cycle.cs_published /\ ~cycle.id_published
                      /\ emu_unresponsive \in 1..CLIENT_UNRESPONSIVE_MAX
          /\ cycle.resets = 1 =>
                /\ last_step = "reset"
                /\ counter_before = CLIENT_UNRESPONSIVE_MAX
                /\ ~cycle.cs_published /\ ~cycle.id_published
    /\ (pc \in LoopPcs /\ pc # "request_cs") =>
          (cycle.sleeps = 0 /\ cycle.resets = 0)

\* an iteration that published both readings has ended with its one sleep
C15_Witness ==
    /\ pc = "request_cs"
    /\ last_step = "sleep"
    /\ cycle.cs_published
    /\ cycle.id_published
    /\ cycle.sleeps = 1
    /\ cycle.resets = 0

\* a genuine response whose divisor is 0
ZeroDivisor(response) == ~IsNonResponse(response) /\ ConvertRaises(response)

\* C16: after a genuine response with divisor 0 the loop is at the conversion
\* or the process has exited with status 1; the response was not counted
\* as a non-response (counter 0, no run of non-responses, no sleep and no
\* reset in the cycle) and no reading of the cycle has been published.
C16_ZeroDivisorIsFatal ==
    /\ (last_step = "request_cs" /\ ZeroDivisor(current_summation_response)) =>
          /\ pc \in {"convert_cs", "exited"}
          /\ pc = "exited" => exit_status = 1
          /\ emu_unresponsive = 0 /\ run_length = 0
          /\ cycle.sleeps = 0 /\ cycle.resets = 0
          /\ ~cycle.cs_published /\ ~cycle.id_published
    /\ (last_step = "request_id" /\ ZeroDivisor(instantaneous_demand_response)) =>
          /\ pc \in {"convert_id", "exited"}
          /\ pc = "exited" => exit_status = 1
          /\ emu_unresponsive = 0 /\ run_length = 0
          /\ cycle.sleeps = 0 /\ cycle.resets = 0
          /\ ~cycle.cs_published /\ ~cycle.id_published
    /\ pc \in {"request_id", "convert_id", "publish_cs_state", "publish_id_state", "sleep"}
          => ~ZeroDivisor(current_summation_response)
    /\ pc \in {"publish_cs_state", "publish_id_state", "sleep"}
          => ~ZeroDivisor(instantaneous_demand_response)

\* the process has exited on a demand response with divisor 0, after a good
\* summation response whose reading was not published
C16_Witness ==
    /\ pc = "exited"
    /\ exit_status = 1
    /\ last_step = "request_id"
    /\ ZeroDivisor(instantaneous_demand_response)
    /\ cycle.cs_genuine
    /\ ~cycle.cs_published
    /\ counter_before = 0
    /\ emu_unresponsive = 0

\* C17: the counter is 0 whenever the InstantaneousDemand request is issued,
\* and exactly 1 after an InstantaneousDemand non-response, which is followed
\* by the sleep; the reset is entered only from a CurrentSummation
\* non-response, in a cycle with no InstantaneousDemand request.
C17_DemandResetUnreachable ==
    /\ pc = "request_id" => emu_unresponsive = 0
    /\ last_step = "request_id" => counter_before = 0
    /\ (last_step = "request_id" /\ IsNonResponse(instantaneous_demand_response)) =>
          /\ emu_unresponsive = 1
          /\ pc = "non_response_sleep"
    /\ (pc \in ResetPcs \/ cycle.resets > 0) =>
          /\ ~cycle.id_requested
          /\ ~cycle.cs_genuine
          /\ IsNonResponse(current_summation_response)

\* the demand request has failed in four cycles in a row and the loop sleeps
C17_Witness ==
    /\ pc = "non_response_sleep"
    /\ last_step = "request_id"
    /\ IsNonResponse(instantaneous_demand_response)
    /\ id_misses = CLIENT_UNRESPONSIVE_MAX + 1
    /\ emu_unresponsive = 1

\* C18: the summation reading is published only in a cycle in which both
\* requests got a genuine response, and the publish of the demand reading is
\* the step right after it: the two state topics have the same number of
\* publishes except between those two steps, where the summation topic has
\* one more; at the start of a cycle the numbers are equal.
C18_PublishedInPairs ==
    LET cs == published["current_summation/state"].count
        id == published["instantaneous_demand/state"].count
    IN  /\ cs = id + (IF pc = "publish_id_state" THEN 1 ELSE 0)
        /\ pc = "request_cs" => cs = id
        /\ cycle.cs_published =>
              (cycle.cs_genuine /\ cycle.id_requested /\ cycle.id_genuine)
        /\ cycle.id_published => cycle.cs_published
        /\ pc = "publish_id_state" => (cycle.cs_published /\ ~cycle.id_published)
        /\ pc = "sleep" => (cycle.cs_published /\ cycle.id_published)
        /\ (cs > 0 /\ pc # "publish_id_state") =>
              /\ published["current_summation/state"].last.kind = "state"
              /\ published["instantaneous_demand/state"].last.kind = "state"

\* a cycle has published the pair, the summation 12.345 and the demand 1/3
C18_Witness ==
    /\ pc = "sleep"
    /\ cycle.cs_published
    /\ cycle.id_published
    /\ published["current_summation/state"].count = 1
    /\ published["instantaneous_demand/state"].count = 1
    /\ current_summation_response.reading = <<12345, 1, 1000>>
    /\ instantaneous_demand_response.reading = <<1, 1, 3>>

\* the loop has had no genuine response since it started: no response of the
\* current cycle is genuine and no summation has ever been converted
NeverAnswered ==
    /\ pc \in LoopPcs
    /\ ~cycle.cs_genuine
    /\ current_summation = Unset

\* C19: while the device has given no genuine response since the loop
\* started, the n non-responses so far have gone in groups of
\* CLIENT_UNRESPONSIVE_MAX + 1: in each group the first CLIENT_UNRESPONSIVE_MAX
\* were each followed by a sleep and the last one by stop_serial and
\* start_serial; so there is one reset per full group, the counter is the
\* position in the current group, the process is running and nothing has been
\* published to a state topic.
C19_SilentDevicePattern ==
    NeverAnswered =>
        LET n == run_length
            k == n \div (CLIENT_UNRESPONSIVE_MAX + 1)
            m == n % (CLIENT_UNRESPONSIVE_MAX + 1)
        IN  /\ exit_status = 0
            /\ \A t \in StateTopics : published[t].count = 0
            /\ pc \in {"request_cs", "non_response_sleep"} \cup ResetPcs
            /\ \A i \in 1..Len(serial_calls) :
                  serial_calls[i] = IF i % 2 = 1 THEN "stop_serial" ELSE "start_serial"
            /\ pc = "request_cs" =>
                  /\ emu_unresponsive = m
                  /\ sleeps_in_run = n - k
                  /\ Len(serial_calls) = 2 * k
                  /\ n > 0 => last_step = IF m = 0 THEN "reset" ELSE "sleep"
            /\ pc = "non_response_sleep" =>
                  /\ m # 0
                  /\ emu_unresponsive = m
                  /\ sleeps_in_run = n - k - 1
                  /\ Len(serial_calls) = 2 * k
            /\ pc \in ResetPcs =>
                  /\ n > 0 /\ m = 0
                  /\ emu_unresponsive = CLIENT_UNRESPONSIVE_MAX + 1
                  /\ sleeps_in_run = n - k
                  /\ Len(serial_calls) = IF pc = "stop_serial" THEN 2 * k - 2
                                         ELSE 2 * k - 1

\* eight non-responses since the loop started: six sleeps and two resets
C19_Witness ==
    /\ NeverAnswered
    /\ pc = "request_cs"
    /\ last_step = "reset"
    /\ run_length = 2 * (CLIENT_UNRESPONSIVE_MAX + 1)
    /\ sleeps_in_run = 2 * CLIENT_UNRESPONSIVE_MAX
    /\ serial_calls = <<"stop_serial", "start_serial", "stop_serial", "start_serial">>
    /\ emu_unresponsive = 0

\* C20: every message the program has published to the availability topic is
\* "online", retained, and no topic has received "offline"; "offline" exists
\* only as the last will held by the client, whatever the device does.
C20_NeverPublishesOffline ==
    /\ published["availability"].count > 0
          => published["availability"].last = Availability("online")
    /\ \A t \in Topics : published[t].last.text # "offline"
    /\ \A t \in Topics \ {"availability"} : published[t].last.kind # "availability"
    /\ will \in {NoMessage, Availability("offline")}

\* a reset after four non-responses is done and the availability is "online"
C20_Witness ==
    /\ pc = "request_cs"
    /\ last_step = "reset"
    /\ run_length = CLIENT_UNRESPONSIVE_MAX + 1
    /\ will = Availability("offline")
    /\ published["availability"].count >= 1
    /\ published["availability"].last = Availability("online")

====
